---- MODULE Spec2Model ----
(***************************************************************************)
(* gdocs-cli: the markdown compiler (markdown-parser.js: parseMarkdown,    *)
(* the block handlers, processInlineTokens, generateDocRequests) and the   *)
(* table materializer of cli/index.js (processTables, populateTable,       *)
(* findTablesInDoc) run against a live document.                           *)
(*                                                                         *)
(* Strings are sequences of one-character strings.  A token of the token   *)
(* source (marked.lexer) is a record [type, text, tokens, n]; an absent    *)
(* text or tokens field is the empty sequence (the code tests both for     *)
(* truthiness/length only).                                                *)
(***************************************************************************)
EXTENDS Integers, Sequences, FiniteSets, TLC

VARIABLES
    tokens,         \* parseMarkdown: the block tokens of marked.lexer(markdown)
    insertAt,       \* generateDocRequests: the insertAt argument
    pos,            \* parseMarkdown: index of the next block of the for loop
    text,           \* parseMarkdown: let text
    requests,       \* parseMarkdown: let requests
    tables,         \* parseMarkdown: let tables
    currentIndex,   \* parseMarkdown: let currentIndex
    result,         \* parseMarkdown: result of the last processToken call
    cursors,        \* history: the value of currentIndex before every block
    allRequests,    \* generateDocRequests: the returned request list
    batch,          \* command action: let requests, the first batchUpdate
    phase,          \* position of the compiler / of the command action
    cmd,            \* the command being run: create, format, replace, append
    doc,            \* the live document, one item per index, index 1 first
    docAfterBatch,  \* history: the document when processTables was entered
    k,              \* processTables: number of descriptors completed
    tablesInDoc,    \* processTables: const tablesInDoc, with its query's epoch
    updatedTables,  \* populateTable: const updatedTables, with its query's epoch
    cellRequests,   \* populateTable: const requests
    headerRequests, \* populateTable: const headerRequests
                    \* (both with the epoch of the query they were built
                    \* from and the textIndex of the descriptor, as history)
    epoch,          \* history: number of mutations applied to the document
    calls,          \* history: the calls made on the live document, in order
    markdown,       \* generateDocRequests: the markdown argument
    processedMarkdown   \* generateDocRequests: const processedMarkdown

vars == <<tokens, insertAt, pos, text, requests, tables, currentIndex, result,
          cursors, allRequests, batch, phase, cmd, doc, docAfterBatch, k, tablesInDoc,
          updatedTables, cellRequests, headerRequests, epoch, calls, markdown,
          processedMarkdown>>

typoVars == <<markdown, processedMarkdown>>

compileVars == <<tokens, insertAt, pos, text, requests, tables, currentIndex,
                 result, cursors, allRequests>>

liveVars == <<batch, cmd, doc, docAfterBatch, k, tablesInDoc, updatedTables,
              cellRequests, headerRequests, epoch, calls>>

(***************************************************************************)
(* Strings                                                                 *)
(***************************************************************************)
NL == "\n"

\* s.startsWith(pat) at offset i (1-based)
MatchAt(s, i, pat) ==
    /\ i + Len(pat) - 1 <= Len(s)
    /\ \A j \in 1..Len(pat) : s[i + j - 1] = pat[j]

RECURSIVE ReplaceFrom(_, _, _, _)
\* String.prototype.replace(/pat/g, rep) for a literal pattern: a left to
\* right scan, non-overlapping matches
ReplaceFrom(s, i, pat, rep) ==
    IF i > Len(s) THEN <<>>
    ELSE IF MatchAt(s, i, pat)
         THEN rep \o ReplaceFrom(s, i + Len(pat), pat, rep)
         ELSE <<s[i]>> \o ReplaceFrom(s, i + 1, pat, rep)

ReplaceAll(s, pat, rep) == ReplaceFrom(s, 1, pat, rep)

decodeEntities(s) ==
    LET s1 == ReplaceAll(s,  <<"&", "#", "3", "9", ";">>, <<"'">>)
        s2 == ReplaceAll(s1, <<"&", "#", "x", "2", "7", ";">>, <<"'">>)
        s3 == ReplaceAll(s2, <<"&", "q", "u", "o", "t", ";">>, <<"\"">>)
        s4 == ReplaceAll(s3, <<"&", "a", "m", "p", ";">>, <<"&">>)
        s5 == ReplaceAll(s4, <<"&", "l", "t", ";">>, <<"<">>)
        s6 == ReplaceAll(s5, <<"&", "g", "t", ";">>, <<">">>)
    IN  ReplaceAll(s6, <<"&", "n", "b", "s", "p", ";">>, <<" ">>)

(***************************************************************************)
(* Typography Filter: smartTypography.  A character outside ASCII is one   *)
(* element of the string, named by its code point.                         *)
(***************************************************************************)
EmDash == "u2014"
EnDash == "u2013"
Ellipsis == "u2026"
LeftDouble == "u201C"
RightDouble == "u201D"
LeftSingle == "u2018"
RightSingle == "u2019"

\* the characters of the texts of the model
Letters == {"a", "b", "c", "d", "e", "i", "o", "q", "s", "t", "u", "x"}
Digits == {"1", "2"}
Chars == Letters \cup Digits
         \cup {" ", "-", "_", "*", "|", ":", ".", "(", ")", "\"", "'", NL}
         \cup {EmDash, EnDash, Ellipsis, LeftDouble, RightDouble, LeftSingle, RightSingle}

\* the character classes \s, \S, \d, \w and [\s(] over these characters
WhiteSpace == {" ", NL}
NonSpace == Chars \ WhiteSpace
WordChars == Letters \cup Digits \cup {"_"}
SpaceOrParen == WhiteSpace \cup {"("}

RECURSIVE ReplaceBetween(_, _, _, _, _, _)
\* s.replace(/(pre)pat(post)/g, '$1' + rep + '$2') from offset i: pre and
\* post are classes of one character, pat is literal; a match consumes
\* both neighbours and the scan resumes behind it
ReplaceBetween(s, i, pre, pat, post, rep) ==
    IF i > Len(s) THEN <<>>
    ELSE IF /\ s[i] \in pre
            /\ MatchAt(s, i + 1, pat)
            /\ i + 1 + Len(pat) <= Len(s)
            /\ s[i + 1 + Len(pat)] \in post
         THEN <<s[i]>> \o rep \o <<s[i + 1 + Len(pat)]>>
              \o ReplaceBetween(s, i + 2 + Len(pat), pre, pat, post, rep)
         ELSE <<s[i]>> \o ReplaceBetween(s, i + 1, pre, pat, post, rep)

RECURSIVE ReplaceOpening(_, _, _, _)
\* s.replace(/(^|[\s(])q(\S)/g, '$1' + rep + '$2') from offset i
ReplaceOpening(s, i, q, rep) ==
    IF i > Len(s) THEN <<>>
    ELSE IF i = 1 /\ s[1] = q /\ Len(s) >= 2 /\ s[2] \in NonSpace
         THEN rep \o <<s[2]>> \o ReplaceOpening(s, 3, q, rep)
         ELSE IF /\ s[i] \in SpaceOrParen
                 /\ i + 2 <= Len(s)
                 /\ s[i + 1] = q
                 /\ s[i + 2] \in NonSpace
              THEN <<s[i]>> \o rep \o <<s[i + 2]>> \o ReplaceOpening(s, i + 3, q, rep)
              ELSE <<s[i]>> \o ReplaceOpening(s, i + 1, q, rep)

RECURSIVE TrimStart(_)
TrimStart(s) == IF s # <<>> /\ Head(s) \in WhiteSpace THEN TrimStart(Tail(s)) ELSE s

RECURSIVE TrimEnd(_)
TrimEnd(s) ==
    IF s # <<>> /\ s[Len(s)] \in WhiteSpace THEN TrimEnd(SubSeq(s, 1, Len(s) - 1)) ELSE s

\* String.prototype.trim
Trim(s) == TrimEnd(TrimStart(s))

\* /^\|[\s\-:|]+\|$/.test(t)
IsDelimiterRowSkipped(t) ==
    /\ Len(t) >= 3
    /\ t[1] = "|" /\ t[Len(t)] = "|"
    /\ \A j \in 2..(Len(t) - 1) : t[j] \in WhiteSpace \cup {"-", ":", "|"}

\* /^(\-{3,}|_{3,}|\*{3,})$/.test(t)
IsRuleSkipped(t) ==
    /\ Len(t) >= 3
    /\ \E c \in {"-", "_", "*"} : \A j \in 1..Len(t) : t[j] = c

\* the chain of replacements applied to a line that is not skipped
Substituted(line) ==
    LET l1  == ReplaceBetween(line, 1, NonSpace, <<"-", "-", "-">>, NonSpace, <<EmDash>>)
        l2  == ReplaceBetween(l1, 1, NonSpace, <<"-", "-", "-">>, WhiteSpace, <<EmDash>>)
        l3  == ReplaceBetween(l2, 1, WhiteSpace, <<"-", "-", "-">>, NonSpace, <<EmDash>>)
        l4  == ReplaceBetween(l3, 1, Digits, <<"-", "-">>, Digits, <<EnDash>>)
        l5  == ReplaceBetween(l4, 1, NonSpace, <<"-", "-">>, NonSpace, <<EnDash>>)
        l6  == ReplaceAll(l5, <<".", ".", ".">>, <<Ellipsis>>)
        l7  == ReplaceOpening(l6, 1, "\"", <<LeftDouble>>)
        l8  == ReplaceAll(l7, <<"\"">>, <<RightDouble>>)
        l9  == ReplaceBetween(l8, 1, WordChars, <<"'">>, WordChars, <<RightSingle>>)
        l10 == ReplaceOpening(l9, 1, "'", <<LeftSingle>>)
    IN  ReplaceAll(l10, <<"'">>, <<RightSingle>>)

\* the callback of map in smartTypography
FilterLine(line) ==
    IF IsDelimiterRowSkipped(Trim(line)) \/ IsRuleSkipped(Trim(line)) THEN line
    ELSE Substituted(line)

RECURSIVE SplitAt(_, _)
\* String.prototype.split(sep) for a separator of one character
SplitAt(s, sep) ==
    IF \A j \in 1..Len(s) : s[j] # sep THEN <<s>>
    ELSE LET n == CHOOSE j \in 1..Len(s) : s[j] = sep /\ \A h \in 1..(j - 1) : s[h] # sep
         IN  <<SubSeq(s, 1, n - 1)>> \o SplitAt(SubSeq(s, n + 1, Len(s)), sep)

\* text.split('\n')
Split(s) == SplitAt(s, NL)

RECURSIVE Join(_)
\* lines.join('\n')
Join(lines) ==
    IF Len(lines) = 1 THEN lines[1] ELSE lines[1] \o <<NL>> \o Join(Tail(lines))

smartTypography(t) ==
    LET lines == Split(t) IN Join([j \in 1..Len(lines) |-> FilterLine(lines[j])])

(***************************************************************************)
(* Requests                                                                *)
(***************************************************************************)
\* updateTextStyle / updateParagraphStyle / createParagraphBullets over
\* range [s, e); tag is the style the request carries
StyleReq(op, s, e, tag) == [op |-> op, s |-> s, e |-> e, tag |-> tag, text |-> <<>>]

\* a token of marked: type, text, tokens (children; for a list its items),
\* n (heading depth, or 1 for an ordered list), header and rows (table)
Tok(type, t, toks, n) ==
    [type |-> type, text |-> t, tokens |-> toks, n |-> n, header |-> <<>>, rows |-> <<>>]

InsertTextReq(index, t) ==
    [op |-> "insertText", s |-> index, e |-> index, tag |-> "", text |-> t]

NoResult == [text |-> <<>>, requests |-> <<>>, hasTable |-> FALSE,
             tableInfo |-> [numRows |-> 0, numCols |-> 0, cells |-> <<>>, textIndex |-> 0]]

NoTable == NoResult.tableInfo

(***************************************************************************)
(* Inline Span Recursor                                                    *)
(***************************************************************************)
RECURSIVE getPlainText(_)
getPlainText(toks) ==
    IF toks = <<>> THEN <<>>
    ELSE LET token == Head(toks)
             t == IF Len(token.tokens) > 0 THEN getPlainText(token.tokens)
                  ELSE token.text
         IN  t \o getPlainText(Tail(toks))

RECURSIVE processInlineTokens(_, _)
RECURSIVE InlineLoop(_, _, _)
RECURSIVE InlineStep(_, _)

\* the locals of processInlineTokens: text, requests, currentIndex
InlineStart(startIndex) == [text |-> <<>>, requests |-> <<>>, cur |-> startIndex]

\* a style request that ends at the length of all the text so far
WrapSpanFromStart(acc, r, tag) ==
    [text |-> acc.text \o r.text,
     requests |-> acc.requests \o r.requests
                  \o <<StyleReq("updateTextStyle", acc.cur,
                                acc.cur + Len(acc.text \o r.text), tag)>>,
     cur |-> acc.cur + Len(r.text)]

\* case 'strong' / 'em' after the recursive call returned r: append the
\* children's text and requests, push one style request, advance the cursor
WrapSpan(acc, r, tag) ==
    [text |-> acc.text \o r.text,
     requests |-> acc.requests \o r.requests
                  \o <<StyleReq("updateTextStyle", acc.cur, acc.cur + Len(r.text), tag)>>,
     cur |-> acc.cur + Len(r.text)]

\* case 'link' / 'codespan': the leaf's text, one style request over it
LeafSpan(acc, str, tag) ==
    [text |-> acc.text \o str,
     requests |-> acc.requests
                  \o <<StyleReq("updateTextStyle", acc.cur, acc.cur + Len(str), tag)>>,
     cur |-> acc.cur + Len(str)]

\* case 'text' / default with children: their text and requests, no request
\* of its own
PlainSpan(acc, r) ==
    [text |-> acc.text \o r.text,
     requests |-> acc.requests \o r.requests,
     cur |-> acc.cur + Len(r.text)]

\* case 'text' / default without children: the decoded text
PlainLeaf(acc, str) == [acc EXCEPT !.text = acc.text \o str, !.cur = acc.cur + Len(str)]

\* One iteration of the for loop of processInlineTokens.
InlineStep(token, acc) ==
    CASE token.type = "strong" ->
           WrapSpan(acc, processInlineTokens(token.tokens, acc.cur), "bold")
      [] token.type = "em" ->
           WrapSpan(acc, processInlineTokens(token.tokens, acc.cur), "italic")
      [] token.type = "link" ->
           \* token.tokens || [{ text: token.text }]: marked always gives a
           \* link its tokens array; an empty one has an empty text as well
           LeafSpan(acc, IF Len(token.tokens) > 0 THEN getPlainText(token.tokens)
                         ELSE token.text, "link")
      [] token.type = "codespan" ->
           LeafSpan(acc, decodeEntities(token.text), "code")
      [] OTHER ->
           \* case 'text' and default: the same two branches (an absent and an
           \* empty text contribute the same nothing)
           IF Len(token.tokens) > 0
           THEN PlainSpan(acc, processInlineTokens(token.tokens, acc.cur))
           ELSE PlainLeaf(acc, decodeEntities(token.text))

InlineLoop(toks, i, acc) ==
    IF i > Len(toks) THEN acc ELSE InlineLoop(toks, i + 1, InlineStep(toks[i], acc))

\* returns { text, requests } (cur is the final value of currentIndex)
processInlineTokens(toks, startIndex) == InlineLoop(toks, 1, InlineStart(startIndex))

(***************************************************************************)
(* Block Compiler                                                          *)
(***************************************************************************)
HrLen == 40

headingStyles(depth) ==
    CASE depth = 1 -> "HEADING_1" [] depth = 2 -> "HEADING_2"
      [] depth = 3 -> "HEADING_3" [] depth = 4 -> "HEADING_4"
      [] depth = 5 -> "HEADING_5" [] depth = 6 -> "HEADING_6"
      [] OTHER -> "HEADING_1"

\* a heading style over the block's text with its terminator
HeadingResultWithTerminator(r, startIndex, depth) ==
    [NoResult EXCEPT
       !.text = r.text \o <<NL>>,
       !.requests = <<StyleReq("updateParagraphStyle", startIndex,
                               startIndex + Len(r.text \o <<NL>>),
                               headingStyles(depth))>> \o r.requests]

\* processHeading after processInlineTokens returned r
HeadingResult(r, startIndex, depth) ==
    [NoResult EXCEPT
       !.text = r.text \o <<NL>>,
       !.requests = <<StyleReq("updateParagraphStyle", startIndex,
                               (startIndex + Len(r.text \o <<NL>>)) - 1,
                               headingStyles(depth))>> \o r.requests]

processHeading(token, startIndex) ==
    HeadingResult(processInlineTokens(token.tokens, startIndex), startIndex, token.n)

ParagraphResult(r) == [NoResult EXCEPT !.text = r.text \o <<NL>>, !.requests = r.requests]

processParagraph(token, startIndex) ==
    ParagraphResult(processInlineTokens(token.tokens, startIndex))

\* itemText += inlineResult.text; requests.push(...inlineResult.requests)
ItemInline(acc, r) ==
    [acc EXCEPT !.itemText = acc.itemText \o r.text, !.requests = acc.requests \o r.requests]

\* one iteration of the inner for loop of processList, over the child tokens
\* of one item; acc.cur is the cursor the item started at
ItemStep(t, acc) ==
    IF t.type \in {"text", "paragraph"}
    THEN ItemInline(acc, processInlineTokens(t.tokens, acc.cur))
    ELSE [acc EXCEPT !.itemText = acc.itemText \o decodeEntities(getPlainText(<<t>>))]

RECURSIVE ItemLoop(_, _, _)
ItemLoop(itemTokens, i, acc) ==
    IF i > Len(itemTokens) THEN acc ELSE ItemLoop(itemTokens, i + 1, ItemStep(itemTokens[i], acc))

\* the end of one iteration of the outer loop: itemText += '\n'; text +=
\* itemText; currentIndex += itemText.length
ItemDone(acc) ==
    [text |-> acc.text \o acc.itemText \o <<NL>>,
     itemText |-> <<>>,
     requests |-> acc.requests,
     cur |-> acc.cur + Len(acc.itemText) + 1]

RECURSIVE ListLoop(_, _, _)
\* the outer for loop of processList over token.items
ListLoop(items, i, acc) ==
    IF i > Len(items) THEN acc
    ELSE ListLoop(items, i + 1, ItemDone(ItemLoop(items[i].tokens, 1, acc)))

bulletPreset(token) ==
    IF token.n = 1 THEN "NUMBERED_DECIMAL_NESTED" ELSE "BULLET_DISC_CIRCLE_SQUARE"

\* a bullet request whose range includes the final terminator
ListResultWithTerminator(acc, startIndex, preset) ==
    [NoResult EXCEPT
       !.text = acc.text,
       !.requests = acc.requests \o
           <<StyleReq("createParagraphBullets", startIndex,
                      startIndex + Len(acc.text), preset)>>]

\* processList after its loop: the single bullet request for the list range
ListResult(acc, startIndex, preset) ==
    [NoResult EXCEPT
       !.text = acc.text,
       !.requests = acc.requests \o
           <<StyleReq("createParagraphBullets", startIndex,
                      startIndex + Len(acc.text) - 1, preset)>>]

processList(token, startIndex) ==
    ListResult(ListLoop(token.tokens, 1,
                        [text |-> <<>>, itemText |-> <<>>, requests |-> <<>>, cur |-> startIndex]),
               startIndex, bulletPreset(token))

\* row.map(cell => decodeEntities(getPlainText(cell.tokens)))
RowCells(row) == [c \in 1..Len(row) |-> decodeEntities(getPlainText(row[c].tokens))]

processTable(token, startIndex) ==
    [NoResult EXCEPT
       !.text = <<NL>>,
       !.hasTable = TRUE,
       !.tableInfo = [numRows |-> Len(token.rows) + 1, numCols |-> Len(token.header),
                      cells |-> <<RowCells(token.header)>>
                                \o [r \in 1..Len(token.rows) |-> RowCells(token.rows[r])],
                      textIndex |-> 0]]

processCodeBlock(token, startIndex) ==
    [NoResult EXCEPT
       !.text = token.text \o <<NL>>,
       !.requests = <<StyleReq("updateTextStyle", startIndex,
                               (startIndex + Len(token.text \o <<NL>>)) - 1, "codeblock")>>]

\* one child of a blockquote: a paragraph's plain text, else the child's
\* own text if it has any
QuoteChild(child) ==
    IF child.type = "paragraph"
    THEN decodeEntities(getPlainText(child.tokens)) \o <<NL>>
    ELSE IF child.text # <<>> THEN decodeEntities(child.text) \o <<NL>>
    ELSE <<>>

RECURSIVE QuoteText(_)
QuoteText(children) ==
    IF children = <<>> THEN <<>>
    ELSE QuoteChild(Head(children)) \o QuoteText(Tail(children))

QuoteResult(t, startIndex) ==
    [NoResult EXCEPT
       !.text = t,
       !.requests = <<StyleReq("updateParagraphStyle", startIndex,
                               (startIndex + Len(t)) - 1, "quote"),
                      StyleReq("updateTextStyle", startIndex,
                               (startIndex + Len(t)) - 1, "quotecolor")>>]

processBlockquote(token, startIndex) == QuoteResult(QuoteText(token.tokens), startIndex)

processHorizontalRule(startIndex) ==
    [NoResult EXCEPT
       !.text = [i \in 1..HrLen |-> "="] \o <<NL>>,
       !.requests = <<StyleReq("updateTextStyle", startIndex, startIndex + HrLen, "hrcolor"),
                      StyleReq("updateParagraphStyle", startIndex, startIndex + HrLen, "hralign")>>]

\* a dispatch whose default case returns the token's raw text
processTokenRawDefault(token, startIndex) ==
    CASE token.type = "heading"    -> processHeading(token, startIndex)
      [] token.type = "paragraph"  -> processParagraph(token, startIndex)
      [] token.type = "list"       -> processList(token, startIndex)
      [] token.type = "table"      -> processTable(token, startIndex)
      [] token.type = "code"       -> processCodeBlock(token, startIndex)
      [] token.type = "blockquote" -> processBlockquote(token, startIndex)
      [] token.type = "hr"         -> processHorizontalRule(startIndex)
      [] token.type = "space"      -> [NoResult EXCEPT !.text = <<NL>>]
      [] OTHER                     -> [NoResult EXCEPT !.text = token.text]

processToken(token, startIndex) ==
    CASE token.type = "heading"    -> processHeading(token, startIndex)
      [] token.type = "paragraph"  -> processParagraph(token, startIndex)
      [] token.type = "list"       -> processList(token, startIndex)
      [] token.type = "table"      -> processTable(token, startIndex)
      [] token.type = "code"       -> processCodeBlock(token, startIndex)
      [] token.type = "blockquote" -> processBlockquote(token, startIndex)
      [] token.type = "hr"         -> processHorizontalRule(startIndex)
      [] token.type = "space"      -> [NoResult EXCEPT !.text = <<NL>>]
      [] OTHER                     -> NoResult

(***************************************************************************)
(* Document Compiler                                                       *)
(***************************************************************************)
\* the accumulators of parseMarkdown before its for loop
ParseStart == [text |-> <<>>, requests |-> <<>>, tables |-> <<>>, currentIndex |-> 1,
               result |-> NoResult]

\* a descriptor stamped with the cursor after the block
CollectAnchorAfter(acc, res, resultText) ==
    [text |-> acc.text \o resultText,
     requests |-> acc.requests \o res.requests,
     tables |-> IF res.hasTable
                THEN Append(acc.tables,
                            [res.tableInfo EXCEPT !.textIndex = acc.currentIndex + Len(resultText)])
                ELSE acc.tables,
     currentIndex |-> acc.currentIndex + Len(resultText),
     result |-> res]

\* the body of the for loop of parseMarkdown after processToken returned res
\* and resultText = decodeEntities(res.text)
Collect(acc, res, resultText) ==
    [text |-> acc.text \o resultText,
     requests |-> acc.requests \o res.requests,
     tables |-> IF res.hasTable
                THEN Append(acc.tables, [res.tableInfo EXCEPT !.textIndex = acc.currentIndex])
                ELSE acc.tables,
     currentIndex |-> acc.currentIndex + Len(resultText),
     result |-> res]

Decoded(acc, res) == Collect(acc, res, decodeEntities(res.text))

\* one iteration of the for loop of parseMarkdown
ParseBody(acc, token) == Decoded(acc, processToken(token, acc.currentIndex))

RECURSIVE ParseLoop(_, _, _)
ParseLoop(toks, i, acc) ==
    IF i > Len(toks) THEN acc ELSE ParseLoop(toks, i + 1, ParseBody(acc, toks[i]))

parseMarkdown(toks) == ParseLoop(toks, 1, ParseStart)

RECURSIVE Filter(_, _)
\* Array.prototype.filter with the predicate "is (not) a createParagraphBullets"
Filter(reqs, bullets) ==
    IF reqs = <<>> THEN <<>>
    ELSE IF (Head(reqs).op = "createParagraphBullets") = bullets
         THEN <<Head(reqs)>> \o Filter(Tail(reqs), bullets)
         ELSE Filter(Tail(reqs), bullets)

\* the requests in emission order, without the move of the bullets
AssembleInEmissionOrder(at, txt, reqs) == <<InsertTextReq(at, txt)>> \o reqs

\* the request list generateDocRequests assembles from parseMarkdown's result
Assemble(at, txt, reqs) ==
    <<InsertTextReq(at, txt)>> \o Filter(reqs, TRUE) \o Filter(reqs, FALSE)

\* generateDocRequests after parseMarkdown returned p
Generated(p, at) ==
    [text |-> p.text, requests |-> Assemble(at, p.text, p.requests), tables |-> p.tables]

generateDocRequests(toks, at) == Generated(parseMarkdown(toks), at)

(***************************************************************************)
(* Live document (the Docs API collaborator).  The body is a flat sequence *)
(* of items, item i at index i: a character, a paragraph terminator, or    *)
(* one structural slot of a table (table, row, cell, end of table).        *)
(* query = documents.get, mutate = documents.batchUpdate, which applies    *)
(* its requests in order and as a whole or not at all.                     *)
(***************************************************************************)
TStart == "<T>"
RStart == "<R>"
CStart == "<C>"
TEnd   == "<E>"

\* id labels the table a structural slot belongs to (history; never read
\* by the program), b is the bold attribute of a character
Item(c) == [c |-> c, id |-> 0, b |-> FALSE]
Slot(c, id) == [c |-> c, id |-> id, b |-> FALSE]

IsText(it) == it.c \notin {TStart, RStart, CStart, TEnd}

Items(str) == [i \in 1..Len(str) |-> Item(str[i])]

RECURSIVE Repeat(_, _)
Repeat(seq, n) == IF n = 0 THEN <<>> ELSE seq \o Repeat(seq, n - 1)

\* an empty table: every cell holds one empty paragraph
EmptyTable(rows, cols, id) ==
    <<Slot(TStart, id)>>
    \o Repeat(<<Slot(RStart, id)>> \o Repeat(<<Slot(CStart, id), Item(NL)>>, cols), rows)
    \o <<Slot(TEnd, id)>>

\* an index inside the bounds of an existing paragraph
InParagraph(d, i) == i \in 1..Len(d) /\ IsText(d[i])

Splice(d, i, new) == SubSeq(d, 1, i - 1) \o new \o SubSeq(d, i, Len(d))

Failed == [ok |-> FALSE, doc |-> <<>>]

\* one request of a batchUpdate applied to document d
ApplyRequest(d, req) ==
    CASE req.op = "insertText" ->
           IF InParagraph(d, req.s) /\ req.text # <<>>
           THEN [ok |-> TRUE, doc |-> Splice(d, req.s, Items(req.text))]
           ELSE Failed
      [] req.op = "insertTable" ->
           \* a newline is inserted before the inserted table
           IF InParagraph(d, req.s) /\ req.rows >= 1 /\ req.cols >= 1
           THEN [ok |-> TRUE,
                 doc |-> Splice(d, req.s, <<Item(NL)>> \o EmptyTable(req.rows, req.cols, req.id))]
           ELSE Failed
      [] req.op = "deleteContentRange" ->
           IF 1 <= req.s /\ req.s < req.e /\ req.e <= Len(d)
           THEN [ok |-> TRUE, doc |-> SubSeq(d, 1, req.s - 1) \o SubSeq(d, req.e, Len(d))]
           ELSE Failed
      [] OTHER ->
           \* updateTextStyle, updateParagraphStyle, createParagraphBullets:
           \* a non-empty range inside the body; only bold is kept
           IF 1 <= req.s /\ req.s < req.e /\ req.e <= Len(d) + 1
           THEN [ok |-> TRUE,
                 doc |-> [i \in 1..Len(d) |->
                            IF req.tag = "bold" /\ req.s <= i /\ i < req.e /\ IsText(d[i])
                            THEN [d[i] EXCEPT !.b = TRUE] ELSE d[i]]]
           ELSE Failed

RECURSIVE BatchUpdate(_, _)
BatchUpdate(d, reqs) ==
    IF reqs = <<>> THEN [ok |-> TRUE, doc |-> d]
    ELSE LET r == ApplyRequest(d, Head(reqs))
         IN  IF r.ok THEN BatchUpdate(r.doc, Tail(reqs)) ELSE Failed

\* doc.data.body.content.slice(-1)[0]?.endIndex || 1
EndIndex(d) == IF d = <<>> THEN 1 ELSE Len(d) + 1

(***************************************************************************)
(* findTablesInDoc: the top-level tables of the body, their rows, and for  *)
(* every cell the start and end index of its first paragraph               *)
(***************************************************************************)
\* number of tables open before index i
Depth(d, i) ==
    Cardinality({j \in 1..(i - 1) : d[j].c = TStart})
    - Cardinality({j \in 1..(i - 1) : d[j].c = TEnd})

Min(S) == CHOOSE x \in S : \A y \in S : x <= y

RECURSIVE Sorted(_)
Sorted(S) == IF S = {} THEN <<>> ELSE <<Min(S)>> \o Sorted(S \ {Min(S)})

\* the end slot of the top-level table starting at t
TableEnd(d, t) == Min({j \in (t + 1)..Len(d) : d[j].c = TEnd /\ Depth(d, j) = 1})

RowStarts(d, t) ==
    Sorted({j \in t..TableEnd(d, t) : d[j].c = RStart /\ Depth(d, j) = 1})

\* the slots of row number r (1-based) of the table at t end here
RowEnd(d, t, r) ==
    LET rs == RowStarts(d, t) IN IF r < Len(rs) THEN rs[r + 1] ELSE TableEnd(d, t)

CellStarts(d, t, r) ==
    Sorted({j \in RowStarts(d, t)[r]..RowEnd(d, t, r) : d[j].c = CStart /\ Depth(d, j) = 1})

\* cell.content[0] when it is a paragraph: its startIndex and endIndex
FirstPara(d, c) ==
    [startIndex |-> c + 1,
     endIndex |-> Min({j \in (c + 1)..Len(d) : d[j].c = NL}) + 1]

RowCellsInDoc(d, t, r) ==
    LET cs == CellStarts(d, t, r)
        withPara == SelectSeq(cs, LAMBDA c : IsText(d[c + 1]))
    IN  [i \in 1..Len(withPara) |-> FirstPara(d, withPara[i])]

findTablesInDoc(d) ==
    LET ts == Sorted({j \in 1..Len(d) : d[j].c = TStart /\ Depth(d, j) = 0})
    IN  [i \in 1..Len(ts) |->
           [startIndex |-> ts[i], id |-> d[ts[i]].id,
            rows |-> [r \in 1..Len(RowStarts(d, ts[i])) |-> RowCellsInDoc(d, ts[i], r)]]]

(***************************************************************************)
(* Table Materializer: populateTable                                       *)
(***************************************************************************)
Reverse(seq) == [i \in 1..Len(seq) |-> seq[Len(seq) + 1 - i]]

\* processTables iterates over [...tables].reverse()
ProcessingOrder(descriptors) == Reverse(descriptors)

RECURSIVE CellLoopAll(_, _, _, _, _)
\* the loops with a request for every cell found, its text empty or not
CellLoopAll(tableInDoc, cells, r, c, reqs) ==
    IF r < 1 THEN reqs
    ELSE IF c < 1
         THEN CellLoopAll(tableInDoc, cells, r - 1,
                          IF r > 1 THEN Len(cells[r - 1]) ELSE 0, reqs)
         ELSE IF r <= Len(tableInDoc.rows) /\ c <= Len(tableInDoc.rows[r])
              THEN CellLoopAll(tableInDoc, cells, r, c - 1,
                               Append(reqs, InsertTextReq(tableInDoc.rows[r][c].startIndex,
                                                          cells[r][c])))
              ELSE CellLoopAll(tableInDoc, cells, r, c - 1, reqs)

RECURSIVE CellLoop(_, _, _, _, _)
\* the two nested for loops of populateTable, last row and last column first
CellLoop(tableInDoc, cells, r, c, reqs) ==
    IF r < 1 THEN reqs
    ELSE IF c < 1
         THEN CellLoop(tableInDoc, cells, r - 1,
                       IF r > 1 THEN Len(cells[r - 1]) ELSE 0, reqs)
         ELSE LET found == r <= Len(tableInDoc.rows) /\ c <= Len(tableInDoc.rows[r])
              IN  IF found /\ cells[r][c] # <<>>
                  THEN CellLoop(tableInDoc, cells, r, c - 1,
                                Append(reqs, InsertTextReq(tableInDoc.rows[r][c].startIndex,
                                                           cells[r][c])))
                  ELSE CellLoop(tableInDoc, cells, r, c - 1, reqs)

\* the cell requests in row-major order, first row and first column first
populateRequestsForward(tableInDoc, cells) ==
    Reverse(CellLoop(tableInDoc, cells, Len(cells),
                     IF cells = <<>> THEN 0 ELSE Len(cells[Len(cells)]), <<>>))

populateRequests(tableInDoc, cells) ==
    CellLoop(tableInDoc, cells, Len(cells),
             IF cells = <<>> THEN 0 ELSE Len(cells[Len(cells)]), <<>>)

\* processTables hands populateTable tablesInDoc[tablesInDoc.length - 1]
TargetTable(found) == found[Len(found)]

\* populateTable styles updatedTables[0]
HeaderTable(found) == found[1]

\* the header positions read from the query made before the cell inserts
HeaderSnapshotStale(updated, previous) == previous

\* the query result populateTable reads the header positions from
HeaderSnapshot(updated, previous) == updated

headerRequestsOf(found) ==
    IF Len(found) > 0
    THEN LET firstTable == HeaderTable(found)
             headerRow == IF Len(firstTable.rows) > 0 THEN firstTable.rows[1] ELSE <<>>
             nonEmpty == SelectSeq(headerRow, LAMBDA cell : cell.startIndex < cell.endIndex - 1)
         IN  [i \in 1..Len(nonEmpty) |->
                StyleReq("updateTextStyle", nonEmpty[i].startIndex, nonEmpty[i].endIndex - 1, "bold")]
    ELSE <<>>

(***************************************************************************)
(* Inputs: token trees as marked.lexer returns them                        *)
(***************************************************************************)
MaxBlocks == 2
MaxInsertAt == 2
MaxTableBlocks == 3
MaxLines == 2
MaxPieces == 3

Txt(str) == Tok("text", str, <<>>, 0)
Strong(toks) == Tok("strong", getPlainText(toks), toks, 0)
Em(toks) == Tok("em", getPlainText(toks), toks, 0)
Link(toks) == Tok("link", getPlainText(toks), toks, 0)
Code(str) == Tok("codespan", str, <<>>, 0)
Para(toks) == Tok("paragraph", getPlainText(toks), toks, 0)
Heading(depth, toks) == Tok("heading", getPlainText(toks), toks, depth)
\* a tight list item: one text token carrying the inline tokens
ListItem(toks) == Tok("list_item", getPlainText(toks), <<Tok("text", getPlainText(toks), toks, 0)>>, 0)
List(ordered, items) == Tok("list", <<>>, items, IF ordered THEN 1 ELSE 0)
Cell(str) == Tok("cell", str, <<Txt(str)>>, 0)
Table(header, rows) ==
    [Tok("table", <<>>, <<>>, 0) EXCEPT
       !.header = [c \in 1..Len(header) |-> Cell(header[c])],
       !.rows = [r \in 1..Len(rows) |-> [c \in 1..Len(rows[r]) |-> Cell(rows[r][c])]]]

AmpEntity == <<"&", "a", "m", "p", ";">>

\* # Title
HeadingTitle == Heading(1, <<Txt(<<"T", "i", "t", "l", "e">>)>>)
\* ## s
HeadingSub == Heading(2, <<Txt(<<"s">>)>>)
\* ###### a**b**
HeadingDeep == Heading(6, <<Txt(<<"a">>), Strong(<<Txt(<<"b">>)>>)>>)
\* a heading token whose depth is none of 1..6
HeadingBeyond == Heading(7, <<Txt(<<"z">>)>>)
\* **bold** text
ParaBoldText == Para(<<Strong(<<Txt(<<"b", "o", "l", "d">>)>>), Txt(<<" ", "t", "e", "x", "t">>)>>)
\* x**_[ab](u)c_d**_e_`f`
ParaNested ==
    Para(<<Txt(<<"x">>),
           Strong(<<Em(<<Link(<<Txt(<<"a", "b">>)>>), Txt(<<"c">>)>>), Txt(<<"d">>)>>),
           Em(<<Txt(<<"e">>)>>),
           Code(<<"f">>)>>)
\* a[&amp;](u)**b** : the text token of the link carries the entity
ParaLinkAmp == Para(<<Txt(<<"a">>), Link(<<Txt(AmpEntity)>>), Strong(<<Txt(<<"b">>)>>)>>)
\* inline kinds the compiler has no case for
ParaUnknown ==
    Para(<<Tok("del", <<"a">>, <<Txt(<<"a">>)>>, 0), Tok("escape", <<"*">>, <<>>, 0),
           Tok("br", <<>>, <<>>, 0), Strong(<<Txt(<<"b">>)>>)>>)
\* - a / - b
ListAB == List(FALSE, <<ListItem(<<Txt(<<"a">>)>>), ListItem(<<Txt(<<"b">>)>>)>>)
\* 1. c**d** / 2. *e*
ListOrdered == List(TRUE, <<ListItem(<<Txt(<<"c">>), Strong(<<Txt(<<"d">>)>>)>>),
                            ListItem(<<Em(<<Txt(<<"e">>)>>)>>)>>)
TableSmall == Table(<<<<"h">>, <<"i">>>>, << <<<<"v">>, <<"w">>>> >>)
CodeBlock == Tok("code", <<"x", "=", "1">>, <<>>, 0)
Quote == Tok("blockquote", <<"q">>, <<Para(<<Txt(<<"q">>)>>)>>, 0)
Hr == Tok("hr", <<>>, <<>>, 0)
Space == Tok("space", <<>>, <<>>, 0)
Html == Tok("html", <<"<", "i", ">">>, <<>>, 0)

\* blocks without content: a lone >, a lone #, an empty fence
QuoteEmpty == Tok("blockquote", <<>>, <<>>, 0)
HeadingEmpty == Heading(1, <<>>)
CodeEmpty == Tok("code", <<>>, <<>>, 0)

\* &quot; as the lexer escapes it, and a code block holding &amp;
ParaDoubleEntity == Para(<<Txt(<<"&", "a", "m", "p", ";", "q", "u", "o", "t", ";">>)>>)
CodeAmp == Tok("code", AmpEntity, <<>>, 0)

\* a loose item of two paragraphs: - a / (blank) /   **b**
ListLoose ==
    List(FALSE, <<Tok("list_item", <<"a", "b">>,
                      <<Para(<<Txt(<<"a">>)>>), Space, Para(<<Strong(<<Txt(<<"b">>)>>)>>)>>, 0)>>)

\* header only, its second cell empty
TableB == Table(<<<<"k">>, <<>>>>, <<>>)

Blocks == {HeadingTitle, HeadingSub, HeadingDeep, HeadingBeyond, ParaBoldText,
           ParaNested, ParaLinkAmp, ParaUnknown, ListAB, ListOrdered, ListLoose,
           TableSmall, TableB, CodeBlock, Quote, Hr, Space, Html,
           QuoteEmpty, HeadingEmpty, CodeEmpty, ParaDoubleEntity, CodeAmp}

SeqsUpTo(S, n) == UNION {[1..m -> S] : m \in 0..n}

CompileInputs == SeqsUpTo(Blocks, MaxBlocks)

\* the documents of the materializer runs: short paragraphs and tables
ParaAB == Para(<<Txt(<<"a", "b">>)>>)
\* 1 header row + 2 data rows
TableA == Table(<<<<"h", "1">>, <<"h", "2">>>>,
                << <<<<"a">>, <<"b", "b">>>>, <<<<"c">>, <<"d">>>> >>)
\* header only, both cells empty
TableBlank == Table(<<<<>>, <<>>>>, <<>>)

TableBlocks == {ParaAB, TableA, TableB, TableBlank}

TableInputs == SeqsUpTo(TableBlocks, MaxTableBlocks) \ {<<>>}

\* documents that exist before format / append run
DocPlain == Items(<<"x", NL>>)
DocWithTable ==
    Items(<<"x", NL>>)
    \o <<Slot(TStart, 0), Slot(RStart, 0), Slot(CStart, 0), Item("t"), Item(NL), Slot(TEnd, 0)>>
    \o Items(<<NL>>)

Commands == {"create", "format", "replace", "append"}

InitialDocs(c) == IF c = "create" THEN {Items(<<NL>>)} ELSE {DocPlain, DocWithTable}

NoSnapshot == [tables |-> <<>>, at |-> 0]
NoRequests == [reqs |-> <<>>, at |-> 0, d |-> 0]

(***************************************************************************)
(* The compiler, one block per step                                        *)
(***************************************************************************)
CompileIdle ==
    /\ pos = 1 /\ text = <<>> /\ requests = <<>> /\ tables = <<>>
    /\ currentIndex = 1 /\ result = NoResult /\ cursors = <<>> /\ allRequests = <<>>

TypoIdle == markdown = <<>> /\ processedMarkdown = <<>>

LiveIdle ==
    /\ batch = <<>> /\ docAfterBatch = <<>> /\ k = 0
    /\ tablesInDoc = NoSnapshot /\ updatedTables = NoSnapshot
    /\ cellRequests = NoRequests /\ headerRequests = NoRequests
    /\ epoch = 0 /\ calls = <<>>

\* the compiler's variables take the values of the accumulators acc
SetCompiler(acc) ==
    /\ text' = acc.text
    /\ requests' = acc.requests
    /\ tables' = acc.tables
    /\ currentIndex' = acc.currentIndex
    /\ result' = acc.result

InitCompile ==
    /\ tokens \in CompileInputs
    /\ insertAt \in 1..MaxInsertAt
    /\ phase = "parse"
    /\ CompileIdle
    /\ cmd = "parse" /\ doc = <<>>
    /\ LiveIdle
    /\ TypoIdle

\* one iteration of the for loop of parseMarkdown
ParseBlock ==
    /\ phase = "parse"
    /\ pos <= Len(tokens)
    /\ SetCompiler(ParseBody([text |-> text, requests |-> requests, tables |-> tables,
                              currentIndex |-> currentIndex, result |-> result], tokens[pos]))
    /\ cursors' = Append(cursors, currentIndex)
    /\ pos' = pos + 1
    /\ UNCHANGED <<tokens, insertAt, allRequests, phase>>
    /\ UNCHANGED liveVars
    /\ UNCHANGED typoVars

\* generateDocRequests after parseMarkdown has returned
AssembleRequests ==
    /\ phase = "parse"
    /\ pos > Len(tokens)
    /\ allRequests' = Assemble(insertAt, text, requests)
    /\ phase' = "compiled"
    /\ UNCHANGED <<tokens, insertAt, pos, text, requests, tables, currentIndex, result, cursors>>
    /\ UNCHANGED liveVars
    /\ UNCHANGED typoVars

NextCompile == ParseBlock \/ AssembleRequests

SpecCompile == InitCompile /\ [][NextCompile]_vars

(***************************************************************************)
(* The command actions (create, format, append) and processTables, one     *)
(* step per call made on the live document                                 *)
(***************************************************************************)
InitTables ==
    /\ tokens \in TableInputs
    /\ cmd \in Commands
    /\ doc \in InitialDocs(cmd)
    /\ insertAt = 1
    /\ phase = "start"
    /\ CompileIdle
    /\ LiveIdle
    /\ TypoIdle

Call(kind, what, d, fresh) == [call |-> kind, what |-> what, d |-> d, fresh |-> fresh]

\* append compiles '\n' + markdown: the lexer turns the leading newline into
\* a space token
CommandTokens == IF cmd = "append" THEN <<Space>> \o tokens ELSE tokens

\* the index the command compiles at: create compiles at the default 1,
\* format --replace at 1, format and append at endIndex - 1
CommandInsertAt == IF cmd \in {"create", "replace"} THEN 1 ELSE EndIndex(doc) - 1

\* format --replace deletes the existing content in the same batch
DeleteRequests ==
    IF cmd = "replace" /\ EndIndex(doc) > 2
    THEN <<[op |-> "deleteContentRange", s |-> 1, e |-> EndIndex(doc) - 1,
            tag |-> "", text |-> <<>>]>>
    ELSE <<>>

\* const { requests, tables } = generateDocRequests(...)
SetGenerated(gen) ==
    /\ text' = gen.text
    /\ tables' = gen.tables
    /\ allRequests' = gen.requests
    /\ batch' = DeleteRequests \o gen.requests

\* the command action up to its batchUpdate: format and append read the
\* document first, every command compiles the markdown
StartCommand ==
    /\ phase = "start"
    /\ insertAt' = CommandInsertAt
    /\ SetGenerated(generateDocRequests(CommandTokens, CommandInsertAt))
    /\ calls' = IF cmd = "create" THEN calls ELSE Append(calls, Call("query", "get", 0, TRUE))
    /\ phase' = "batch"
    /\ UNCHANGED <<tokens, pos, requests, currentIndex, result, cursors, cmd, doc,
                   docAfterBatch, k, tablesInDoc, updatedTables, cellRequests,
                   headerRequests, epoch>>
    /\ UNCHANGED typoVars

\* the descriptor of the current iteration of for (... of [...tables].reverse())
tableInfo == ProcessingOrder(tables)[k + 1]

\* the end of one iteration of the loop of processTables
NextPhase == IF k + 1 = Len(tables) THEN "done" ELSE "insert"

\* batchUpdate of the compiled requests, then processTables up to its first call
ApplyBatch ==
    /\ phase = "batch"
    /\ LET r == BatchUpdate(doc, batch)
       IN  IF r.ok
           THEN /\ doc' = r.doc
                /\ docAfterBatch' = r.doc
                /\ epoch' = epoch + 1
                /\ phase' = IF tables = <<>> THEN "done" ELSE "insert"
           ELSE /\ phase' = "failed"
                /\ UNCHANGED <<doc, docAfterBatch, epoch>>
    /\ calls' = Append(calls, Call("mutate", "batch", 0, TRUE))
    /\ UNCHANGED compileVars
    /\ UNCHANGED <<batch, cmd, k, tablesInDoc, updatedTables, cellRequests, headerRequests>>
    /\ UNCHANGED typoVars

\* batchUpdate({ insertTable }) at the descriptor's textIndex
InsertTable ==
    /\ phase = "insert"
    /\ LET r == ApplyRequest(doc, [op |-> "insertTable", s |-> tableInfo.textIndex,
                                   rows |-> tableInfo.numRows, cols |-> tableInfo.numCols,
                                   id |-> tableInfo.textIndex])
       IN  IF r.ok
           THEN doc' = r.doc /\ epoch' = epoch + 1 /\ phase' = "query1"
           ELSE phase' = "failed" /\ UNCHANGED <<doc, epoch>>
    /\ calls' = Append(calls, Call("mutate", "insertTable", tableInfo.textIndex, TRUE))
    /\ UNCHANGED compileVars
    /\ UNCHANGED <<batch, cmd, docAfterBatch, k, tablesInDoc, updatedTables,
                   cellRequests, headerRequests>>
    /\ UNCHANGED typoVars

\* documents.get after the insertion; populateTable builds its requests
QueryCells ==
    /\ phase = "query1"
    /\ LET found == [tables |-> findTablesInDoc(doc), at |-> epoch]
       IN  /\ tablesInDoc' = found
           /\ IF Len(found.tables) > 0
              THEN LET reqs == populateRequests(TargetTable(found.tables), tableInfo.cells)
                   IN  /\ cellRequests' = [reqs |-> reqs, at |-> found.at, d |-> tableInfo.textIndex]
                       /\ phase' = IF Len(reqs) > 0 THEN "populate" ELSE "query2"
                       /\ k' = k
              ELSE /\ cellRequests' = NoRequests
                   /\ phase' = NextPhase
                   /\ k' = k + 1
    /\ calls' = Append(calls, Call("query", "get", tableInfo.textIndex, TRUE))
    /\ UNCHANGED compileVars
    /\ UNCHANGED <<batch, cmd, doc, docAfterBatch, updatedTables, headerRequests, epoch>>
    /\ UNCHANGED typoVars

\* batchUpdate of the cell insertText requests
PopulateCells ==
    /\ phase = "populate"
    /\ LET r == BatchUpdate(doc, cellRequests.reqs)
       IN  IF r.ok
           THEN doc' = r.doc /\ epoch' = epoch + 1 /\ phase' = "query2"
           ELSE phase' = "failed" /\ UNCHANGED <<doc, epoch>>
    /\ calls' = Append(calls, Call("mutate", "populate", tableInfo.textIndex,
                                   cellRequests.at = epoch))
    /\ UNCHANGED compileVars
    /\ UNCHANGED <<batch, cmd, docAfterBatch, k, tablesInDoc, updatedTables,
                   cellRequests, headerRequests>>
    /\ UNCHANGED typoVars

\* documents.get after the cell inserts; the header requests are built
QueryHeader ==
    /\ phase = "query2"
    /\ LET found == [tables |-> findTablesInDoc(doc), at |-> epoch]
           used == HeaderSnapshot(found, tablesInDoc)
           reqs == headerRequestsOf(used.tables)
       IN  /\ updatedTables' = found
           /\ headerRequests' = [reqs |-> reqs, at |-> used.at, d |-> tableInfo.textIndex]
           /\ IF Len(reqs) > 0
              THEN phase' = "header" /\ k' = k
              ELSE phase' = NextPhase /\ k' = k + 1
    /\ calls' = Append(calls, Call("query", "get", tableInfo.textIndex, TRUE))
    /\ UNCHANGED compileVars
    /\ UNCHANGED <<batch, cmd, doc, docAfterBatch, tablesInDoc, cellRequests, epoch>>
    /\ UNCHANGED typoVars

\* batchUpdate of the bold requests of the header row; the iteration ends
StyleHeader ==
    /\ phase = "header"
    /\ LET r == BatchUpdate(doc, headerRequests.reqs)
       IN  IF r.ok
           THEN doc' = r.doc /\ epoch' = epoch + 1 /\ phase' = NextPhase /\ k' = k + 1
           ELSE phase' = "failed" /\ UNCHANGED <<doc, epoch, k>>
    /\ calls' = Append(calls, Call("mutate", "header", tableInfo.textIndex,
                                   headerRequests.at = epoch))
    /\ UNCHANGED compileVars
    /\ UNCHANGED <<batch, cmd, docAfterBatch, tablesInDoc, updatedTables,
                   cellRequests, headerRequests>>
    /\ UNCHANGED typoVars

\* a rejected call that is skipped over: the loop goes on with the next table
CallFailsAndContinues ==
    /\ phase \in {"batch", "insert", "query1", "populate", "query2", "header"}
    /\ phase' = IF phase = "batch" THEN "insert" ELSE NextPhase
    /\ k' = IF phase = "batch" THEN k ELSE k + 1
    /\ phase = "batch" => tables # <<>>
    /\ UNCHANGED compileVars
    /\ UNCHANGED <<batch, cmd, doc, docAfterBatch, tablesInDoc, updatedTables, cellRequests,
                   headerRequests, epoch, calls>>
    /\ UNCHANGED typoVars

\* a call on the live document rejects (transport, quota): the awaiting
\* command action's catch reports the error and exits
CallFails ==
    /\ phase \in {"batch", "insert", "query1", "populate", "query2", "header"}
    /\ phase' = "failed"
    /\ UNCHANGED compileVars
    /\ UNCHANGED liveVars
    /\ UNCHANGED typoVars

NextTables ==
    \/ StartCommand
    \/ ApplyBatch
    \/ InsertTable
    \/ QueryCells
    \/ PopulateCells
    \/ QueryHeader
    \/ StyleHeader
    \/ CallFails

SpecTables == InitTables /\ [][NextTables]_vars

(***************************************************************************)
(* The typography filter applied to a markdown text, and applied again to  *)
(* its own output                                                          *)
(***************************************************************************)
\* it's "quoted" text
LineScenarioC == <<"i", "t", "'", "s", " ", "\"", "q", "u", "o", "t", "e", "d", "\"", " ",
                   "t", "e", "x", "t">>
\* a--b--c
LineDashRuns == <<"a", "-", "-", "b", "-", "-", "c">>
\* 'a' ("b")... 1---2
LineMixed == <<"'", "a", "'", " ", "(", "\"", "b", "\"", ")", ".", ".", ".", " ",
               "1", "-", "-", "-", "2">>
\* |---|:-| with blanks around it
LineDelimiter == <<" ", "|", "-", "-", "-", "|", ":", "-", "|", " ">>
\* ---|--- : a delimiter row without the outer pipes
LineDelimiterBare == <<"-", "-", "-", "|", "-", "-", "-">>
LineRuleDash == <<"-", "-", "-">>
LineRuleUnder == <<" ", "_", "_", "_", "_">>
LineRuleStar == <<"*", "*", "*", " ">>
\* a|b
LineRow == <<"a", "|", "b">>

TypoLines == {LineScenarioC, LineDashRuns, LineMixed, LineDelimiter, LineDelimiterBare,
              LineRuleDash, LineRuleUnder, LineRuleStar, LineRow, <<>>}

Pieces == {<<"a">>, <<"1">>, <<" ">>, <<"-", "-">>, <<"-">>, <<".", ".", ".">>, <<"\"">>, <<"'">>}

RECURSIVE Flatten(_)
Flatten(seqs) == IF seqs = <<>> THEN <<>> ELSE Head(seqs) \o Flatten(Tail(seqs))

\* texts of up to MaxLines lines, and single lines of up to MaxPieces pieces
TypoInputs ==
    {Join(ls) : ls \in SeqsUpTo(TypoLines, MaxLines) \ {<<>>}}
    \cup {Flatten(ps) : ps \in SeqsUpTo(Pieces, MaxPieces)}

InitTypography ==
    /\ markdown \in TypoInputs
    /\ processedMarkdown = <<>>
    /\ phase = "raw"
    /\ tokens = <<>> /\ insertAt = 1
    /\ CompileIdle
    /\ cmd = "parse" /\ doc = <<>>
    /\ LiveIdle

\* const processedMarkdown = smartTypography(markdown)
FilterMarkdown ==
    /\ phase = "raw"
    /\ processedMarkdown' = smartTypography(markdown)
    /\ phase' = "filtered"
    /\ UNCHANGED markdown
    /\ UNCHANGED compileVars
    /\ UNCHANGED liveVars

\* the filtered text is given to generateDocRequests again as markdown
FilterAgain ==
    /\ phase = "filtered"
    /\ markdown' = processedMarkdown
    /\ processedMarkdown' = smartTypography(processedMarkdown)
    /\ phase' = "refiltered"
    /\ UNCHANGED compileVars
    /\ UNCHANGED liveVars

NextTypography == FilterMarkdown \/ FilterAgain

SpecTypography == InitTypography /\ [][NextTypography]_vars

(***************************************************************************)
(* Properties of the table materializer (SpecTables)                       *)
(***************************************************************************)
\* the cell slots of the table labelled id, in document order (row-major)
CellSlots(d, id) == Sorted({j \in 1..Len(d) : d[j].c = CStart /\ d[j].id = id})

RowSlots(d, id) == {j \in 1..Len(d) : d[j].c = RStart /\ d[j].id = id}

\* the index of the terminator of the paragraph that starts at index i
ParaEnd(d, i) == Min({j \in i..Len(d) : d[j].c = NL})

\* the text of the first paragraph of cell number n of the table labelled id
CellText(d, id, n) ==
    LET from == CellSlots(d, id)[n] + 1
    IN  [i \in 1..(ParaEnd(d, from) - from) |-> d[from + i - 1].c]

\* table number i of the run holds, cell by cell, the text of its descriptor
Materialized(d, info) ==
    /\ Cardinality(RowSlots(d, info.textIndex)) = info.numRows
    /\ Len(CellSlots(d, info.textIndex)) = info.numRows * info.numCols
    /\ \A r \in 1..info.numRows : \A c \in 1..info.numCols :
          CellText(d, info.textIndex, (r - 1) * info.numCols + c) = info.cells[r][c]

HasTable(d) == \E j \in 1..Len(d) : d[j].c = TStart

\* C1 (as claimed): Table isolation.  When processTables has run to
\* completion over two descriptors, every cell of each of the two tables
\* holds exactly the text of its own descriptor.
C1_TableIsolation ==
    (phase = "done" /\ cmd = "create" /\ Len(tables) = 2)
        => \A i \in 1..2 : Materialized(doc, tables[i])

\* C2: Single-table materialization.  One descriptor, in a document that
\* holds no other table: an R x C table is inserted, the cell insertText
\* requests are issued at strictly decreasing document positions (reverse
\* row-major), one per non-empty cell and at that cell's queried start, and
\* once the batch is applied every cell (r,c) holds exactly cells[r][c].
C2_SingleTable ==
    (Len(tables) = 1 /\ ~HasTable(docAfterBatch))
        => /\ phase \in {"query1", "populate", "query2", "header", "done"}
                => /\ Cardinality(RowSlots(doc, tables[1].textIndex)) = tables[1].numRows
                   /\ Len(CellSlots(doc, tables[1].textIndex))
                         = tables[1].numRows * tables[1].numCols
           /\ phase = "populate"
                => /\ \A i \in 1..(Len(cellRequests.reqs) - 1) :
                         cellRequests.reqs[i].s > cellRequests.reqs[i + 1].s
                   /\ {<<q.s, q.text>> : q \in {cellRequests.reqs[i] : i \in 1..Len(cellRequests.reqs)}}
                         = {<<CellSlots(doc, tables[1].textIndex)[(r - 1) * tables[1].numCols + c] + 1,
                              tables[1].cells[r][c]>> :
                               <<r, c>> \in {rc \in (1..tables[1].numRows) \X (1..tables[1].numCols) :
                                              tables[1].cells[rc[1]][rc[2]] # <<>>}}
           /\ phase \in {"query2", "header", "done"} => Materialized(doc, tables[1])

\* C2 witness: scenario D, a 3 x 2 table after a preceding paragraph, done
C2_Witness ==
    /\ phase = "done" /\ cmd = "create"
    /\ Len(tables) = 1 /\ tables[1].numRows = 3 /\ tables[1].textIndex > 1
    /\ CellText(doc, tables[1].textIndex, 4) = <<"b", "b">>
    /\ CellText(doc, tables[1].textIndex, 1) = <<"h", "1">>

\* the ranges [start, end - 1) of the non-empty header cells of the table
\* labelled id
OwnHeaderRanges(d, id, numCols) ==
    {<<CellSlots(d, id)[c] + 1, ParaEnd(d, CellSlots(d, id)[c] + 1)>> :
        c \in {x \in 1..numCols : x <= Len(CellSlots(d, id))
                                  /\ CellText(d, id, x) # <<>>}}

\* C3 (as claimed): Header styling targets the table being materialized.
\* The bold requests built after the re-query cover exactly the non-empty
\* header cells of the table inserted for the current descriptor.
C3_HeaderTargetsOwnTable ==
    (headerRequests.d # 0 /\ headerRequests.at = epoch /\ phase # "failed")
        => {<<q.s, q.e>> : q \in {headerRequests.reqs[i] : i \in 1..Len(headerRequests.reqs)}}
              = OwnHeaderRanges(doc, headerRequests.d,
                                (CHOOSE t \in {tables[i] : i \in 1..Len(tables)} :
                                    t.textIndex = headerRequests.d).numCols)

\* position and kind of every item, without the text attributes
Shape(d) == [i \in 1..Len(d) |-> <<d[i].c, d[i].id>>]

InsertCalls == SelectSeq(calls, LAMBDA c : c.what = "insertTable")

\* the positions in the compiled token list of the table tokens
TableTokens == SelectSeq([i \in 1..Len(CommandTokens) |-> i],
                         LAMBDA i : CommandTokens[i].type = "table")

\* length of the text the given number of leading blocks contribute
TextBefore(n) == Len(parseMarkdown(SubSeq(CommandTokens, 1, n)).text)

\* the index in the live document of the placeholder newline of the table
\* of the current iteration: the text is inserted at insertAt
PlaceholderIndex == insertAt + TextBefore(TableTokens[Len(tables) - k] - 1)

\* C8 (as claimed): Reverse anchor order.  The insertTable mutations are
\* issued in strictly decreasing order of textIndex, and when a table is
\* about to be inserted nothing at or before its anchor has moved since the
\* compiled batch was applied and the anchor denotes the table's own
\* placeholder newline in the live document.
C8_ReverseAnchorOrder ==
    /\ \A i \in 1..(Len(InsertCalls) - 1) : InsertCalls[i].d > InsertCalls[i + 1].d
    /\ phase = "insert"
         => /\ tableInfo.textIndex <= Len(doc)
            /\ SubSeq(Shape(doc), 1, tableInfo.textIndex)
                  = SubSeq(Shape(docAfterBatch), 1, tableInfo.textIndex)
            /\ tableInfo.textIndex = PlaceholderIndex
            /\ doc[tableInfo.textIndex].c = NL

\* the calls processTables made
TableCalls == SelectSeq(calls, LAMBDA c : c.d # 0)

\* number of queries made for the descriptor of call i before call i
GetsBefore(S, i) ==
    Cardinality({j \in 1..(i - 1) : S[j].what = "get" /\ S[j].d = S[i].d})

\* C9: Sequential, re-querying protocol.  Per table the calls are
\* insertTable, query, cell inserts (if any), query, header bold (if any);
\* a table's first call comes only after the previous table's sequence is
\* complete; the positions of every cell insert and header style come from
\* a query made after the most recent mutation.
C9_SequentialProtocol ==
    \A i \in 1..Len(TableCalls) :
        LET S == TableCalls
            c == S[i]
            prev == S[i - 1]
        IN  CASE c.what = "insertTable" ->
                   /\ c.call = "mutate"
                   /\ \A j \in 1..(i - 1) : S[j].d # c.d
                   /\ i > 1 => /\ prev.what \in {"get", "header"}
                               /\ GetsBefore(S, i - 1) + (IF prev.what = "get" THEN 1 ELSE 0) = 2
              [] c.what = "get" ->
                   /\ c.call = "query"
                   /\ i > 1 /\ prev.d = c.d
                   /\ \/ GetsBefore(S, i) = 0 /\ prev.what = "insertTable"
                      \/ GetsBefore(S, i) = 1 /\ prev.what \in {"get", "populate"}
              [] c.what = "populate" ->
                   /\ c.call = "mutate" /\ c.fresh
                   /\ i > 1 /\ prev.d = c.d /\ prev.what = "get" /\ GetsBefore(S, i) = 1
              [] c.what = "header" ->
                   /\ c.call = "mutate" /\ c.fresh
                   /\ i > 1 /\ prev.d = c.d /\ prev.what = "get" /\ GetsBefore(S, i) = 2
              [] OTHER -> FALSE

\* C9 witness: two tables done, one of them with the full five-call
\* sequence, the other without a header-bold mutation
C9_Witness ==
    /\ phase = "done" /\ Len(tables) = 2
    /\ Len(TableCalls) = 9
    /\ TableCalls[5].what = "header"
    /\ TableCalls[6].what = "insertTable"

(***************************************************************************)
(* Properties of the compiler (SpecCompile)                                *)
(***************************************************************************)
ToSet(seq) == {seq[i] : i \in 1..Len(seq)}

IsBullet(r) == r.op = "createParagraphBullets"

\* C4 (as claimed): Destination coordinates.  Once the requests are
\* assembled for insertAt, every style and bullet range and every table
\* anchor lies within [insertAt, insertAt + Len(text)], the text the leading
\* insertText places at insertAt.
C4_DestinationCoordinates ==
    phase = "compiled"
        => /\ \A r \in ToSet(requests) :
                 insertAt <= r.s /\ r.s <= r.e /\ r.e <= insertAt + Len(text)
           /\ \A t \in ToSet(tables) :
                 insertAt <= t.textIndex /\ t.textIndex <= insertAt + Len(text)

\* C5 (as claimed): Cursor invariant of parseMarkdown.  The cursor starts
\* at 1, never decreases, before each block is 1 + the length of the text
\* emitted so far, after the last block is 1 + Len(text), and no emitted
\* operation ends beyond that final value.
C5_CursorInvariant ==
    /\ cursors # <<>> => cursors[1] = 1
    /\ \A i \in 1..(Len(cursors) - 1) : cursors[i] <= cursors[i + 1]
    /\ cursors # <<>> => cursors[Len(cursors)] <= currentIndex
    /\ currentIndex = 1 + Len(text)
    /\ pos > Len(tokens) => \A r \in ToSet(requests) : r.e <= currentIndex

RECURSIVE Contributed(_)
\* the text a list of inline nodes contributes to the paragraph
Contributed(toks) ==
    IF toks = <<>> THEN <<>>
    ELSE LET t == Head(toks)
             own == IF t.type = "link" THEN getPlainText(t.tokens)
                    ELSE IF Len(t.tokens) > 0 THEN Contributed(t.tokens)
                    ELSE decodeEntities(t.text)
         IN  own \o Contributed(Tail(toks))

SpanTag(type) ==
    CASE type = "strong" -> "bold" [] type = "em" -> "italic"
      [] type = "link" -> "link" [] type = "codespan" -> "code" [] OTHER -> ""

RECURSIVE Spans(_, _, _)
\* the styled nodes of an inline tree whose first node is entered with the
\* cursor at entry: path in the tree, style, and the range
\* [cursorAtEntry, cursorAtEntry + len)
Spans(toks, entry, path) ==
    UNION {LET t == toks[i]
               at == entry + Len(Contributed(SubSeq(toks, 1, i - 1)))
               own == IF SpanTag(t.type) # ""
                      THEN {[path |-> Append(path, i), tag |-> SpanTag(t.type),
                             s |-> at, e |-> at + Len(Contributed(<<t>>))]}
                      ELSE {}
           IN  IF t.type \in {"link", "codespan"} THEN own
               ELSE own \cup Spans(t.tokens, at, Append(path, i))
           : i \in 1..Len(toks)}

RECURSIVE NodeAt(_, _)
\* the node of an inline tree at a path
NodeAt(toks, path) ==
    IF Len(path) = 1 THEN toks[path[1]]
    ELSE NodeAt(toks[path[1]].tokens, Tail(path))

IsPrefix(p, q) == Len(p) < Len(q) /\ SubSeq(q, 1, Len(p)) = p

Siblings(p, q) ==
    /\ Len(p) = Len(q)
    /\ SubSeq(p, 1, Len(p) - 1) = SubSeq(q, 1, Len(q) - 1)
    /\ p[Len(p)] < q[Len(q)]

\* the block parseMarkdown has just compiled, and the cursor it started at
LastBlock == tokens[pos - 1]
LastStart == cursors[pos - 1]

InlineRequests == SelectSeq(result.requests, LAMBDA r : r.op = "updateTextStyle")

\* C6: Inline nesting.  For a paragraph compiled by processInlineTokens,
\* the style operations emitted are, one for one, the styled nodes of the
\* inline tree, each with range [cursorAtEntry, cursorAtEntry + len) where
\* len is the length of the text the node's children contribute and the
\* range holds exactly that text; descendants' ranges lie within their
\* ancestors', siblings' ranges are disjoint and in left-to-right order,
\* and the cursor has advanced by the nodes' lengths, once each.
C6_InlineNesting ==
    (phase = "parse" /\ pos > 1 /\ LastBlock.type = "paragraph")
        => LET nodes == Spans(LastBlock.tokens, LastStart, <<>>)
               emitted == InlineRequests
               Triple(x) == <<x.tag, x.s, x.e>>
           IN  /\ Len(emitted) = Cardinality(nodes)
               /\ \A n \in nodes :
                     Cardinality({i \in 1..Len(emitted) : Triple(emitted[i]) = Triple(n)})
                        = Cardinality({m \in nodes : Triple(m) = Triple(n)})
               /\ \A n \in nodes :
                     SubSeq(result.text, n.s - LastStart + 1, n.e - LastStart)
                        = Contributed(<<NodeAt(LastBlock.tokens, n.path)>>)
               /\ \A n \in nodes : \A m \in nodes :
                     /\ IsPrefix(n.path, m.path) => n.s <= m.s /\ m.e <= n.e
                     /\ Siblings(n.path, m.path) => n.e <= m.s
               /\ Len(result.text) = Len(Contributed(LastBlock.tokens)) + 1

\* C6 witness: the paragraph x**_[ab](u)c_d**_e_`f` compiled at cursor 1:
\* bold over [2,6) containing italic over [2,5) containing the link [2,4)
C6_Witness ==
    /\ phase = "parse" /\ pos = 2 /\ tokens[1] = ParaNested
    /\ \E i, j, l \in 1..Len(result.requests) :
          /\ l < j /\ j < i
          /\ result.requests[i].tag = "bold" /\ result.requests[i].s = 2
          /\ result.requests[i].e = 6
          /\ result.requests[j].tag = "italic" /\ result.requests[j].e = 5
          /\ result.requests[l].tag = "link" /\ result.requests[l].e = 4

\* C7: Operation ordering.  The assembled list is one insertText at
\* insertAt carrying the text, then the bullet operations in emission
\* order, then every other operation in emission order; nothing is dropped
\* or duplicated.
C7_OperationOrdering ==
    phase = "compiled"
        => LET nb == Cardinality({i \in 1..Len(requests) : IsBullet(requests[i])})
           IN  /\ Len(allRequests) = 1 + Len(requests)
               /\ allRequests[1].op = "insertText"
               /\ allRequests[1].s = insertAt
               /\ allRequests[1].text = text
               /\ SubSeq(allRequests, 2, 1 + nb) = SelectSeq(requests, IsBullet)
               /\ SubSeq(allRequests, 2 + nb, Len(allRequests))
                     = SelectSeq(requests, LAMBDA r : ~IsBullet(r))

\* C7 witness: a bullet operation that was emitted after another operation
\* has been moved in front of it
C7_Witness ==
    /\ phase = "compiled"
    /\ \E i, j \in 1..Len(requests) :
          /\ i < j /\ ~IsBullet(requests[i]) /\ IsBullet(requests[j])
          /\ allRequests[2] = requests[j]

\* C10: List bullet range.  A list compiled at cursor listStart yields
\* exactly one createParagraphBullets, over [listStart, listStart +
\* Len(listText) - 1), numbered when the list is ordered and bulleted
\* otherwise, and one terminator per item; "- a / - b" at cursor 1 gives
\* the text a NL b NL and one bullet operation over [1,4).
C10_ListBulletRange ==
    (phase = "parse" /\ pos > 1 /\ LastBlock.type = "list")
        => LET bullets == SelectSeq(result.requests, IsBullet)
           IN  /\ Len(bullets) = 1
               /\ bullets[1].s = LastStart
               /\ bullets[1].e = LastStart + Len(result.text) - 1
               /\ bullets[1].tag = IF LastBlock.n = 1 THEN "NUMBERED_DECIMAL_NESTED"
                                   ELSE "BULLET_DISC_CIRCLE_SQUARE"
               /\ Cardinality({i \in 1..Len(result.text) : result.text[i] = NL})
                     = Len(LastBlock.tokens)
               /\ result.text[Len(result.text)] = NL
               /\ (LastBlock = ListAB /\ LastStart = 1)
                     => /\ result.text = <<"a", NL, "b", NL>>
                        /\ bullets[1].s = 1 /\ bullets[1].e = 4

\* C10 witness: the list "- a / - b" compiled at cursor 1
C10_Witness ==
    /\ phase = "parse" /\ pos = 2 /\ tokens[1] = ListAB
    /\ result.text = <<"a", NL, "b", NL>>
    /\ \E i \in 1..Len(result.requests) :
          IsBullet(result.requests[i]) /\ result.requests[i].e = 4

\* the text one child token of a list item contributes to the item
ItemChildText(t) ==
    IF t.type \in {"text", "paragraph"} THEN Contributed(t.tokens)
    ELSE decodeEntities(getPlainText(<<t>>))

RECURSIVE ItemChildrenText(_)
ItemChildrenText(children) ==
    IF children = <<>> THEN <<>>
    ELSE ItemChildText(Head(children)) \o ItemChildrenText(Tail(children))

RECURSIVE ItemsText(_)
\* the text a sequence of list items contributes, a terminator per item
ItemsText(items) ==
    IF items = <<>> THEN <<>>
    ELSE ItemChildrenText(Head(items).tokens) \o <<NL>> \o ItemsText(Tail(items))

\* the styled inline nodes of a list compiled at start, each with the
\* range its text has in the list's text, offset by start
ListSpans(list, start) ==
    UNION {LET children == list.tokens[i].tokens
               at == start + Len(ItemsText(SubSeq(list.tokens, 1, i - 1)))
                           + Len(ItemChildrenText(SubSeq(children, 1, j - 1)))
           IN  IF children[j].type \in {"text", "paragraph"}
               THEN Spans(children[j].tokens, at, <<i, j>>)
               ELSE {}
           : <<i, j>> \in {ij \in (1..Len(list.tokens)) \X (1..3) :
                              ij[2] <= Len(list.tokens[ij[1]].tokens)}}

\* C11 (as claimed): List item inline ranges.  Every inline style
\* operation processList emits for the content of an item has the range,
\* in the list's text offset by the list's start, of exactly the text it
\* styles: for every item and every inline-bearing child of an item.
C11_ListItemInlineRanges ==
    (phase = "parse" /\ pos > 1 /\ LastBlock.type = "list")
        => LET nodes == ListSpans(LastBlock, LastStart)
               emitted == InlineRequests
               Triple(x) == <<x.tag, x.s, x.e>>
           IN  /\ result.text = ItemsText(LastBlock.tokens)
               /\ Len(emitted) = Cardinality(nodes)
               /\ {Triple(emitted[i]) : i \in 1..Len(emitted)} = {Triple(n) : n \in nodes}

\* C12: Heading range.  A heading compiled at startIndex yields exactly one
\* updateParagraphStyle over [startIndex, startIndex + Len(inline text)),
\* tagged HEADING_n for depth n in 1..6 and HEADING_1 for any other depth,
\* plus the inline operations of its content resolved from startIndex;
\* "# Title / **bold** text" gives the text Title NL bold text NL, one
\* HEADING_1 over [1,6) and one bold over [7,11).
C12_HeadingRange ==
    /\ (phase = "parse" /\ pos > 1 /\ LastBlock.type = "heading")
          => LET styles == SelectSeq(result.requests,
                                     LAMBDA r : r.op = "updateParagraphStyle")
                 inline == Contributed(LastBlock.tokens)
                 Triple(x) == <<x.tag, x.s, x.e>>
             IN  /\ Len(styles) = 1
                 /\ styles[1].s = LastStart
                 /\ styles[1].e = LastStart + Len(inline)
                 /\ styles[1].tag = IF LastBlock.n \in 1..6
                                    THEN <<"HEADING_1", "HEADING_2", "HEADING_3", "HEADING_4",
                                           "HEADING_5", "HEADING_6">>[LastBlock.n]
                                    ELSE "HEADING_1"
                 /\ result.text = inline \o <<NL>>
                 /\ Len(result.requests) = 1 + Len(InlineRequests)
                 /\ Len(InlineRequests) = Cardinality(Spans(LastBlock.tokens, LastStart, <<>>))
                 /\ {Triple(InlineRequests[i]) : i \in 1..Len(InlineRequests)}
                       = {Triple(n) : n \in Spans(LastBlock.tokens, LastStart, <<>>)}
    /\ (pos = 3 /\ tokens = <<HeadingTitle, ParaBoldText>>)
          => /\ text = <<"T", "i", "t", "l", "e", NL, "b", "o", "l", "d", " ", "t", "e", "x", "t", NL>>
             /\ requests = <<StyleReq("updateParagraphStyle", 1, 6, "HEADING_1"),
                             StyleReq("updateTextStyle", 7, 11, "bold")>>

\* C12 witness: scenario A compiled, "# Title / **bold** text"
C12_Witness ==
    /\ pos = 3 /\ tokens = <<HeadingTitle, ParaBoldText>>
    /\ Len(requests) = 2 /\ requests[1].tag = "HEADING_1" /\ requests[1].e = 6
    /\ requests[2].s = 7

\* the positions, among the blocks compiled so far, of the table blocks
TablesSeen == SelectSeq([i \in 1..(pos - 1) |-> i], LAMBDA i : tokens[i].type = "table")

\* the texts of a row of cell tokens
CellTexts(row) == [c \in 1..Len(row) |-> decodeEntities(row[c].text)]

\* C13: Table placeholder and descriptor.  A table block contributes
\* exactly one terminator and no operation; parseMarkdown holds one
\* descriptor per table compiled, in source order, whose textIndex is the
\* cursor at the block's entry, the position of the placeholder in the
\* text, with numRows = data rows + 1, numCols = header cells, and cells =
\* the header row followed by the data rows.
C13_TableDescriptor ==
    phase = "parse"
        => /\ (pos > 1 /\ LastBlock.type = "table")
                 => /\ result.text = <<NL>>
                    /\ result.requests = <<>>
                    /\ currentIndex = LastStart + 1
           /\ Len(tables) = Len(TablesSeen)
           /\ \A i \in 1..Len(tables) :
                 LET token == tokens[TablesSeen[i]]
                     d == tables[i]
                 IN  /\ d.textIndex = cursors[TablesSeen[i]]
                     /\ d.textIndex <= Len(text) /\ text[d.textIndex] = NL
                     /\ d.numRows = Len(token.rows) + 1
                     /\ d.numCols = Len(token.header)
                     /\ d.cells = <<CellTexts(token.header)>>
                                  \o [r \in 1..Len(token.rows) |-> CellTexts(token.rows[r])]

\* C13 witness: two different tables compiled, a 2 x 2 one and a
\* header-only one: descriptors at 1 and 2, in source order
C13_Witness ==
    /\ phase = "parse" /\ pos = 3 /\ tokens = <<TableSmall, TableB>>
    /\ Len(tables) = 2
    /\ tables[1].textIndex = 1 /\ tables[1].numRows = 2
    /\ tables[2].textIndex = 2 /\ tables[2].numRows = 1
    /\ text = <<NL, NL>>

\* the cells of the descriptor that have a text and whose position is in
\* the queried table
CellsToFill(target, cells) ==
    {rc \in (1..Len(cells)) \X (1..Len(cells[1])) :
        /\ cells[rc[1]][rc[2]] # <<>>
        /\ rc[1] <= Len(target.rows)
        /\ rc[2] <= Len(target.rows[rc[1]])}

PopulateCalls(d) == SelectSeq(calls, LAMBDA c : c.what = "populate" /\ c.d = d)

\* C14: Materialization failure policy.  populateTable builds no insertText
\* for a cell whose text is empty and none for a cell whose position is
\* absent from the queried table; every other cell gets exactly one, at its
\* queried start; the batch of these is accepted; and when no cell needs
\* text no populate mutation is sent.
C14_FailurePolicy ==
    (phase \in {"populate", "query2"} /\ cellRequests.d = tableInfo.textIndex)
        => LET target == TargetTable(tablesInDoc.tables)
               reqs == cellRequests.reqs
               wanted == CellsToFill(target, tableInfo.cells)
           IN  /\ Len(reqs) = Cardinality(wanted)
               /\ {<<reqs[i].s, reqs[i].text>> : i \in 1..Len(reqs)}
                     = {<<target.rows[rc[1]][rc[2]].startIndex, tableInfo.cells[rc[1]][rc[2]]>> :
                           rc \in wanted}
               /\ \A i \in 1..Len(reqs) : reqs[i].op = "insertText" /\ reqs[i].text # <<>>
               /\ phase = "populate" => reqs # <<>> /\ BatchUpdate(doc, reqs).ok
               /\ reqs = <<>> => PopulateCalls(cellRequests.d) = <<>>
               /\ Len(PopulateCalls(cellRequests.d)) <= 1

\* C14 witness: the queried table has fewer rows than the descriptor and a
\* cell without text, and the cells found have been populated
C14_Witness ==
    /\ phase = "query2" /\ cellRequests.d = tableInfo.textIndex
    /\ Len(TargetTable(tablesInDoc.tables).rows) < tableInfo.numRows
    /\ Len(PopulateCalls(cellRequests.d)) = 1
    /\ Len(cellRequests.reqs) = 2

\* a step in which a call on the live document was rejected: no call
\* completed, or the mutation just logged changed nothing
CallRejected ==
    \/ /\ phase \in {"batch", "insert", "query1", "populate", "query2", "header"}
       /\ calls' = calls
    \/ /\ calls' # calls
       /\ calls'[Len(calls')].call = "mutate"
       /\ epoch' = epoch

\* C15: Cancellation without rollback.  A rejected query or mutate call
\* ends the run as failed, with the document as it was; once failed, no
\* further call is made and the document is not touched again; in
\* processTables no step removes anything from the document.
C15_CancellationNoRollback ==
    [][/\ CallRejected => phase' = "failed" /\ doc' = doc
       /\ phase = "failed" => phase' = "failed" /\ doc' = doc /\ calls' = calls
       /\ phase \in {"insert", "query1", "populate", "query2", "header"}
            => Len(doc') >= Len(doc) /\ epoch' >= epoch /\ docAfterBatch' = docAfterBatch]_vars

\* C15 witness: the run failed while the second table was in progress,
\* after the first one was completed; the document still holds the
\* completed table
C15_Witness ==
    /\ phase = "failed" /\ cmd = "create"
    /\ Len(tables) = 2 /\ k = 1
    /\ Len(InsertCalls) = 2
    /\ Materialized(doc, tables[2])
    /\ Len(doc) > Len(docAfterBatch)

\* the kinds processToken and processInlineTokens have a case for
KnownBlockKinds == {"heading", "paragraph", "list", "table", "code", "blockquote", "hr",
                    "space"}
KnownInlineKinds == {"text", "strong", "em", "link", "codespan"}

\* what an inline node without a case stands for: the text of its children
\* if it has any, else its own text, else nothing
DegradedText(t) ==
    IF Len(t.tokens) > 0 THEN Contributed(t.tokens) ELSE decodeEntities(t.text)

\* C18: Graceful degradation.  Every step of the compiler returns a result
\* and extends the text and the operations collected so far.  A top-level
\* block of a kind without a case adds no text, no operation and no table,
\* and leaves the cursor where it was.  In a paragraph, an inline node of a
\* kind without a case stands in the text, at the offset of the text before
\* it, for the text of its children, else its own text, else nothing; the
\* operations are, one for one, the styled nodes of the tree (none for the
\* node itself), and a styled node behind it has its range at the offset of
\* the text before it.
C18_GracefulDegradation ==
    [][(phase = "parse" /\ pos' = pos + 1)
          => LET b == tokens[pos]
                 res == result'
             IN  /\ SubSeq(text', 1, Len(text)) = text
                 /\ SubSeq(requests', 1, Len(requests)) = requests
                 /\ b.type \notin KnownBlockKinds
                       => /\ res = NoResult
                          /\ text' = text /\ requests' = requests /\ tables' = tables
                          /\ currentIndex' = currentIndex
                 /\ (b.type = "paragraph"
                       /\ \E i \in 1..Len(b.tokens) : b.tokens[i].type \notin KnownInlineKinds)
                       => /\ Len(res.requests) = Cardinality(Spans(b.tokens, currentIndex, <<>>))
                          /\ \A i \in 1..Len(b.tokens) :
                                LET t == b.tokens[i]
                                    off == Len(Contributed(SubSeq(b.tokens, 1, i - 1)))
                                IN  /\ t.type \notin KnownInlineKinds
                                       => SubSeq(res.text, off + 1, off + Len(DegradedText(t)))
                                             = DegradedText(t)
                                    /\ SpanTag(t.type) # ""
                                       => \E r \in ToSet(res.requests) :
                                             /\ r.tag = SpanTag(t.type)
                                             /\ r.s = currentIndex + off
                                             /\ r.e = r.s + Len(Contributed(<<t>>))
                          /\ res.text = Contributed(b.tokens) \o <<NL>>]_vars

\* C18 witness: an html block, then the paragraph ~~a~~\*<br>**b** : the
\* html block left nothing, the paragraph reads a*b and its only operation
\* is the bold over b at [3,4); the compilation went on to its end
C18_Witness ==
    /\ phase = "compiled"
    /\ tokens = <<Html, ParaUnknown>>
    /\ cursors = <<1, 1>>
    /\ text = <<"a", "*", "b", NL>>
    /\ requests = <<StyleReq("updateTextStyle", 3, 4, "bold")>>

\* C19 (as claimed): Operation range well-formedness.  Every operation a
\* block handler returns, also for a block without content, has
\* start <= end, has start < end when the block contributes a character
\* other than a terminator, starts at or after the cursor the block was
\* entered with, and ends at or before 1 + the length of the final text.
C19_RangeWellFormed ==
    /\ (phase = "parse" /\ pos > 1)
          => \A r \in ToSet(result.requests) :
                /\ r.s <= r.e
                /\ (\E j \in 1..Len(result.text) : result.text[j] # NL) => r.s < r.e
                /\ LastStart <= r.s
    /\ (phase = "parse" /\ pos > Len(tokens))
          => \A r \in ToSet(requests) : r.e <= 1 + Len(text)

\* C20 (as claimed): Length consistency under entity decoding.  For every
\* block, the length parseMarkdown adds to the cursor equals the length of
\* the text the handler returned and computed its ranges on, so no
\* operation of the block ends beyond the text added for it.
C20_LengthConsistency ==
    (phase = "parse" /\ pos > 1)
        => /\ currentIndex - LastStart = Len(result.text)
           /\ \A r \in ToSet(result.requests) : r.e <= currentIndex

(***************************************************************************)
(* Properties of the typography filter (SpecTypography)                    *)
(***************************************************************************)
\* C16 (as claimed): Typography filter idempotence.  Filtering a filtered
\* text is a no-op: the second application returns its input.
C16_FilterIdempotent ==
    phase = "refiltered" => processedMarkdown = markdown

\* one cell of a delimiter row: blanks, an optional colon, dashes, an
\* optional colon, blanks
IsDelimiterCell(cell) ==
    LET t == Trim(cell)
        body == IF t # <<>> /\ Head(t) = ":" THEN Tail(t) ELSE t
        core == IF body # <<>> /\ body[Len(body)] = ":"
                THEN SubSeq(body, 1, Len(body) - 1) ELSE body
    IN  core # <<>> /\ \A j \in 1..Len(core) : core[j] = "-"

\* a table delimiter row: delimiter cells separated by pipes, the leading
\* and the trailing pipe optional
IsDelimiterRow(line) ==
    LET t == Trim(line)
        parts == SplitAt(t, "|")
        inner == SubSeq(parts, IF parts[1] = <<>> THEN 2 ELSE 1,
                        IF parts[Len(parts)] = <<>> THEN Len(parts) - 1 ELSE Len(parts))
    IN  /\ Len(parts) >= 2
        /\ inner # <<>>
        /\ \A j \in 1..Len(inner) : IsDelimiterCell(inner[j])

\* a line that, trimmed, is only ---, ___ or *** of length >= 3
IsRuleOnly(line) ==
    LET t == Trim(line)
    IN  Len(t) >= 3 /\ \E c \in {"-", "_", "*"} : \A j \in 1..Len(t) : t[j] = c

\* C17 (as claimed): Typography filter exemption.  The filter returns as
\* many lines as it was given, in order; every table delimiter row and
\* every horizontal-rule-only line comes back identical; each line is
\* processed independently of the others; and the line it's "quoted" text
\* comes back with the curly apostrophe and the curly quote pair.
C17_FilterExemption ==
    phase = "filtered"
        => LET in == Split(markdown)
               out == Split(processedMarkdown)
           IN  /\ Len(out) = Len(in)
               /\ \A j \in 1..Len(in) :
                     /\ (IsDelimiterRow(in[j]) \/ IsRuleOnly(in[j])) => out[j] = in[j]
                     /\ out[j] = smartTypography(in[j])
                     /\ in[j] = LineScenarioC
                           => out[j] = <<"i", "t", RightSingle, "s", " ", LeftDouble, "q",
                                         "u", "o", "t", "e", "d", RightDouble, " ",
                                         "t", "e", "x", "t">>

====
